---- MODULE Spec2Model ----
(***************************************************************************)
(* Model of the GSTR-2B regeneration status poller (gstr_2b.js):           *)
(* gstr_2b.check_regenerate_status / gstr_2b._check_regenerate_status,     *)
(* of gstr_2b.regenerate with the "Regenerate 2B" button of the GSTR 3B    *)
(* Report form, and of india_compliance.validate_gstin.                    *)
(*                                                                         *)
(* A poll is one call of check_regenerate_status for one job reference.    *)
(* Each poll owns a promise, its resolve function, the `retries` argument  *)
(* of the invocation in progress, at most one armed timer and at most one  *)
(* outstanding frappe.call.  The host event loop is single threaded: every *)
(* action below is one callback run to completion.                         *)
(***************************************************************************)
EXTENDS Integers, Sequences, FiniteSets, TLC

\* ---------------------------------------------------------------- bounds
\* number of job references polled concurrently
NumJobs == 2

\* longest retry schedule explored (prefixes of the shipped schedule)
MaxSchedule == 3

\* clicks of "Update Address" explored
MaxClicks == 2

\* get_gstin_status calls one field sends
MaxStatusCalls == 2

\* changes of the date_option filter of the Audit Trail report
MaxOptionChanges == 2

Jobs == 1..NumJobs

\* ------------------------------------------------------- program constants
\* gstr_2b.js line 5 (milliseconds)
ShippedIntervals == <<2000, 3000, 15000, 30000, 60000, 120000, 300000, 600000, 720000>>

Min(a, b) == IF a < b THEN a ELSE b

\* the schedules a run may be loaded with: the shipped list cut to 1..MaxSchedule entries
Schedules ==
    { SubSeq(ShippedIntervals, 1, n) : n \in 1..Min(MaxSchedule, Len(ShippedIntervals)) }

\* ------------------------------------------------------------ JS values
NoMsg == "<undefined>"
JSUndefined == [type |-> "undefined"]
Pending == [type |-> "pending"]
Outcome(status, error) == [type |-> "object", status |-> status, error |-> error]

\* the outcome built at gstr_2b.js line 52
Exhausted == Outcome("ER", "Failed to regenerate GSTR-2B")

\* status codes and messages the remote check may answer with
TerminalCodes == {"P", "ER"}
Messages == {NoMsg, "No document found"}

\* r of the frappe.call callback: either r.exc is set, or r.message carries
\* status_cd and err_msg
ExcResponse == [exc |-> TRUE, status_cd |-> NoMsg, err_msg |-> NoMsg]
InProgress == [exc |-> FALSE, status_cd |-> "IP", err_msg |-> NoMsg]
TerminalResponses ==
    { [exc |-> FALSE, status_cd |-> s, err_msg |-> m] : s \in TerminalCodes, m \in Messages }
Responses == {ExcResponse, InProgress} \cup TerminalResponses

\* ---------------------------------------------------------------- state
VARIABLES
    RETRY_INTERVALS,    \* the global retry schedule
    polls,              \* job -> state of the poll for that job reference
    requests,           \* job -> state of the gstr_2b.regenerate request that yields that job
    validation,         \* the latest call of india_compliance.validate_gstin
    evaluation,         \* the latest call of one of the other helpers of india_compliance
    address,            \* the Address form: its document, its fields, the calls of the latest handler
    quick_entry,        \* frappe.ui.form.AddressQuickEntryForm and the "Update Address" fetches
    gstin_field,        \* a gstin field: its value, its description, its get_gstin_status calls
    audit_trail         \* the Audit Trail report: its date_option and date_range filters

vars == <<RETRY_INTERVALS, polls, requests, validation, evaluation, address, quick_entry,
          gstin_field, audit_trail>>

\* state of the poller and of gstr_2b.regenerate
pollerVars == <<RETRY_INTERVALS, polls, requests>>

\* state the poller and gstr_2b.regenerate never touch
formVars == <<validation, evaluation, address, quick_entry, gstin_field, audit_trail>>

\* a poll before check_regenerate_status is called for the job
IdlePoll ==
    [ pc           |-> "idle",     \* idle | waiting (timer armed) | querying (frappe.call outstanding) | stopped
      retries      |-> 0,          \* `retries` of the latest _check_regenerate_status invocation
      timerLeft    |-> 0,          \* ms until the armed timer fires
      waited       |-> 0,          \* ms elapsed since the timer was armed
      queries      |-> 0,          \* status queries issued
      resolveCalls |-> 0,          \* invocations of the resolve function
      resolved     |-> << >>,      \* the values resolve was invoked with, in order
      promise      |-> Pending,    \* Pending, or the value the promise settled with
      waits        |-> << >>,      \* waits[q]: the wait observed before query q
      log          |-> << >> ]     \* events of this poll, in order

\* ------------------------------------------------------------ operations
\* resolve(v) of the promise created at line 39: every call counts, only the
\* first one settles the promise
Resolve(ps, j, v) ==
    [ps EXCEPT ![j].resolveCalls = @ + 1,
               ![j].resolved = Append(@, v),
               ![j].promise = IF @ = Pending THEN v ELSE @]

\* variants of _check_regenerate_status with one fault each
\* (a) the exhaustion test is `>` instead of `>=`; RETRY_INTERVALS[N] is
\*     undefined in JS and setTimeout treats it as 0
check_status_late_exhaustion(ps, j, retries, intervals) ==
    IF retries > Len(intervals)
    THEN Resolve([ps EXCEPT ![j].retries = retries, ![j].pc = "stopped"], j, Exhausted)
    ELSE [ps EXCEPT ![j].retries = retries,
                    ![j].pc = "waiting",
                    ![j].timerLeft = IF retries < Len(intervals) THEN intervals[retries + 1] ELSE 0,
                    ![j].waited = 0]

\* (b) one attempt fewer is allowed
check_status_early_exhaustion(ps, j, retries, intervals) ==
    IF retries + 1 >= Len(intervals)
    THEN Resolve([ps EXCEPT ![j].retries = retries, ![j].pc = "stopped"], j, Exhausted)
    ELSE [ps EXCEPT ![j].retries = retries,
                    ![j].pc = "waiting",
                    ![j].timerLeft = intervals[retries + 1],
                    ![j].waited = 0]

\* (c) the delay is always the first entry of the schedule
check_status_fixed_delay(ps, j, retries, intervals) ==
    IF retries >= Len(intervals)
    THEN Resolve([ps EXCEPT ![j].retries = retries, ![j].pc = "stopped"], j, Exhausted)
    ELSE [ps EXCEPT ![j].retries = retries,
                    ![j].pc = "waiting",
                    ![j].timerLeft = intervals[1],
                    ![j].waited = 0]

\* (d) the delay of a retry is the entry of the attempt before it
check_status_previous_delay(ps, j, retries, intervals) ==
    IF retries >= Len(intervals)
    THEN Resolve([ps EXCEPT ![j].retries = retries, ![j].pc = "stopped"], j, Exhausted)
    ELSE [ps EXCEPT ![j].retries = retries,
                    ![j].pc = "waiting",
                    ![j].timerLeft = intervals[IF retries = 0 THEN 1 ELSE retries],
                    ![j].waited = 0]

\* (e) the attempt counter is one counter shared by all polls
check_status_shared_counter(ps, j, retries, intervals) ==
    IF retries >= Len(intervals)
    THEN Resolve([k \in DOMAIN ps |->
                    IF k = j THEN [ps[k] EXCEPT !.retries = retries, !.pc = "stopped"]
                    ELSE IF ps[k].pc = "idle" THEN ps[k]
                    ELSE [ps[k] EXCEPT !.retries = retries]], j, Exhausted)
    ELSE [k \in DOMAIN ps |->
            IF k = j THEN [ps[k] EXCEPT !.retries = retries,
                                        !.pc = "waiting",
                                        !.timerLeft = intervals[retries + 1],
                                        !.waited = 0]
            ELSE IF ps[k].pc = "idle" THEN ps[k]
            ELSE [ps[k] EXCEPT !.retries = retries]]

\* _check_regenerate_status(gstin, reference_id, doctype, resolve, retries),
\* lines 44-81, up to the point where the timer is armed; returns undefined
_check_regenerate_status(ps, j, retries, intervals) ==
    IF retries >= Len(intervals)
    THEN Resolve([ps EXCEPT ![j].retries = retries, ![j].pc = "stopped"], j, Exhausted)
    ELSE [ps EXCEPT ![j].retries = retries,
                    ![j].pc = "waiting",
                    ![j].timerLeft = intervals[retries + 1],
                    ![j].waited = 0]

\* check_regenerate_status(gstin, reference_id, doctype), lines 38-42
check_regenerate_status(ps, j, intervals) ==
    _check_regenerate_status([ps EXCEPT ![j].promise = Pending], j, 0, intervals)

\* the setTimeout callback, lines 56-59: issues the status query
TimerCallback(ps, j) ==
    [ps EXCEPT ![j].pc = "querying",
               ![j].queries = @ + 1,
               ![j].waits = Append(@, ps[j].waited),
               ![j].timerLeft = 0,
               ![j].waited = 0]

\* variants of the frappe.call callback with one fault each
\* (a) every status other than "P" is retried
QueryCallback_retry_unless_success(ps, j, r, intervals) ==
    LET returned == [ps EXCEPT ![j].pc = "stopped"] IN
    IF r.exc THEN returned
    ELSE IF r.status_cd # "P"
         THEN Resolve(_check_regenerate_status(returned, j, ps[j].retries + 1, intervals),
                      j, JSUndefined)
         ELSE Resolve(returned, j, Outcome(r.status_cd, r.err_msg))

\* (b) a response with r.exc is treated as in-progress
QueryCallback_retry_on_exc(ps, j, r, intervals) ==
    LET returned == [ps EXCEPT ![j].pc = "stopped"] IN
    IF r.exc \/ r.status_cd = "IP"
    THEN Resolve(_check_regenerate_status(returned, j, ps[j].retries + 1, intervals),
                 j, JSUndefined)
    ELSE Resolve(returned, j, Outcome(r.status_cd, r.err_msg))

\* (c) an in-progress answer is reported like any other status, without a retry
QueryCallback_no_retry(ps, j, r, intervals) ==
    LET returned == [ps EXCEPT ![j].pc = "stopped"] IN
    IF r.exc THEN returned
    ELSE Resolve(returned, j, Outcome(r.status_cd, r.err_msg))

\* (d) a retry skips one attempt (retries + 2)
QueryCallback_skips_attempt(ps, j, r, intervals) ==
    LET returned == [ps EXCEPT ![j].pc = "stopped"] IN
    IF r.exc THEN returned
    ELSE IF r.status_cd = "IP"
         THEN Resolve(_check_regenerate_status(returned, j, ps[j].retries + 2, intervals),
                      j, JSUndefined)
         ELSE Resolve(returned, j, Outcome(r.status_cd, r.err_msg))

\* the frappe.call callback, lines 60-78
QueryCallback(ps, j, r, intervals) ==
    LET returned == [ps EXCEPT ![j].pc = "stopped"] IN
    IF r.exc THEN returned
    ELSE IF r.status_cd = "IP"
         THEN Resolve(_check_regenerate_status(returned, j, ps[j].retries + 1, intervals),
                      j, JSUndefined)
         ELSE Resolve(returned, j, Outcome(r.status_cd, r.err_msg))

\* the query fails and the callback of line 60 is never run
QueryFailed(ps, j) == [ps EXCEPT ![j].pc = "stopped"]

\* d ms pass for every armed timer
Elapse(ps, d) ==
    [k \in DOMAIN ps |->
        IF ps[k].pc = "waiting"
        THEN [ps[k] EXCEPT !.timerLeft = @ - d, !.waited = @ + d]
        ELSE ps[k]]

\* events kept in a poll's log
StartEvent == [ev |-> "start"]
FireEvent == [ev |-> "fire"]
LostEvent == [ev |-> "lost"]
ResponseEvent(r) == [ev |-> "response", r |-> r]

Logged(ps, j, e) == [ps EXCEPT ![j].log = Append(@, e)]

\* the schedule after a statement of lines 38-81 has read it (lines 51 and
\* 80): reading RETRY_INTERVALS.length or RETRY_INTERVALS[retries] changes
\* nothing; the variant consumes the schedule with RETRY_INTERVALS.shift()
ReadIntervals_shift(intervals) ==
    IF intervals = << >> THEN intervals ELSE Tail(intervals)

ReadIntervals(intervals) == intervals

\* ------------------------------------------------ gstr_2b.regenerate
JSNull == [type |-> "null"]

\* r of the taxpayer_api.call callback (lines 16-21): r.exc, or r.message
\* absent, or r.message with an error_type, or r.message with a reference_id
StartExc == [exc |-> TRUE, has_message |-> FALSE, error_type |-> NoMsg]
StartNoMessage == [exc |-> FALSE, has_message |-> FALSE, error_type |-> NoMsg]
StartReference == [exc |-> FALSE, has_message |-> TRUE, error_type |-> NoMsg]
StartError(t) == [exc |-> FALSE, has_message |-> TRUE, error_type |-> t]
ErrorTypes == {"otp_requested", "invalid_otp"}
StartResponses ==
    {StartExc, StartNoMessage, StartReference} \cup { StartError(t) : t \in ErrorTypes }

\* what the user is shown
Alert(m) == [kind |-> "alert", message |-> m]
Thrown(m) == [kind |-> "throw", message |-> m]
TypeError == [kind |-> "TypeError", message |-> "Cannot read properties of undefined (reading 'status')"]

\* a job for which gstr_2b.regenerate has not been called
IdleRequest ==
    [ pc           |-> "none",   \* none | starting | returned | threw | awaiting | done
      start        |-> << >>,    \* the response of the start call, once received
      hasCallback  |-> FALSE,    \* args.callback is set
      callbackArgs |-> << >>,    \* first argument of every invocation of args.callback
      ui           |-> << >> ]   \* alerts and errors shown, in order

\* callback of the "Regenerate 2B" button, gstr_3b_report.js lines 96-105
RegenerateCallback(regeneration_status) ==
    IF regeneration_status.type # "object" THEN <<TypeError>>
    ELSE IF regeneration_status.status = "ER" THEN <<Thrown(regeneration_status.error)>>
    ELSE IF regeneration_status.status = "P"
         THEN <<Alert("Successfully Regenerated GSTR-2B")>>
         ELSE << >>

\* click on "Regenerate 2B", gstr_3b_report.js lines 86-95, and
\* gstr_2b.regenerate up to the remote call, gstr_2b.js lines 8-15
regenerate(reqs, j) ==
    [reqs EXCEPT ![j].pc = "starting",
                 ![j].hasCallback = TRUE,
                 ![j].ui = Append(@, Alert("Regenerating GSTR-2B"))]

\* args.callback && args.callback(regeneration_status, args), line 33
InvokeCallback(reqs, j, regeneration_status) ==
    IF reqs[j].hasCallback
    THEN [reqs EXCEPT ![j].pc = "done",
                      ![j].callbackArgs = Append(@, regeneration_status),
                      ![j].ui = @ \o RegenerateCallback(regeneration_status)]
    ELSE [reqs EXCEPT ![j].pc = "done"]

\* the rest of the async callback once the awaited promise has settled, lines 26-33
AwaitResumes(reqs, ps, j) ==
    IF reqs[j].pc = "awaiting" /\ ps[j].promise # Pending
    THEN InvokeCallback(reqs, j, ps[j].promise)
    ELSE reqs

\* variant of the start callback: an "otp_requested" answer is not returned on
regenerate_callback_polls_on_otp(reqs, ps, j, r, intervals) ==
    LET got == [reqs EXCEPT ![j].start = <<r>>] IN
    IF r.exc
    THEN [requests |-> [got EXCEPT ![j].pc = "returned"], polls |-> ps]
    ELSE IF r.has_message /\ r.error_type # NoMsg /\ r.error_type # "otp_requested"
    THEN [requests |-> [got EXCEPT ![j].pc = "threw", ![j].ui = Append(@, Thrown(r.error_type))],
          polls |-> ps]
    ELSE IF r.has_message
    THEN LET started == Logged(check_regenerate_status(ps, j, intervals), j, StartEvent) IN
         [requests |-> AwaitResumes([got EXCEPT ![j].pc = "awaiting"], started, j),
          polls |-> started]
    ELSE [requests |-> InvokeCallback(got, j, JSNull), polls |-> ps]

\* the taxpayer_api.call callback of gstr_2b.regenerate, lines 16-34; the text
\* thrown at line 21 (r.message.error.message) is identified by its error_type
regenerate_callback(reqs, ps, j, r, intervals) ==
    LET got == [reqs EXCEPT ![j].start = <<r>>] IN
    IF r.exc
    THEN [requests |-> [got EXCEPT ![j].pc = "returned"], polls |-> ps]
    ELSE IF r.has_message /\ r.error_type = "otp_requested"
    THEN [requests |-> [got EXCEPT ![j].pc = "returned"], polls |-> ps]
    ELSE IF r.has_message /\ r.error_type # NoMsg
    THEN [requests |-> [got EXCEPT ![j].pc = "threw", ![j].ui = Append(@, Thrown(r.error_type))],
          polls |-> ps]
    ELSE IF r.has_message
    THEN LET started == Logged(check_regenerate_status(ps, j, intervals), j, StartEvent) IN
         [requests |-> AwaitResumes([got EXCEPT ![j].pc = "awaiting"], started, j),
          polls |-> started]
    ELSE [requests |-> InvokeCallback(got, j, JSNull), polls |-> ps]


\* --------------------------------------------------------------- actions
\* ---------------------------------- india_compliance.validate_gstin
\* strings are sequences of one-character strings
Digits == {"0", "1", "2", "3", "4", "5", "6", "7", "8", "9"}
UpperCase == <<"A", "B", "C", "D", "E", "F", "G", "H", "I", "J", "K", "L", "M", "N", "O", "P", "Q", "R", "S", "T", "U", "V", "W", "X", "Y", "Z">>
LowerCase == <<"a", "b", "c", "d", "e", "f", "g", "h", "i", "j", "k", "l", "m", "n", "o", "p", "q", "r", "s", "t", "u", "v", "w", "x", "y", "z">>
Letter(cs) == { cs[i] : i \in 1..Len(cs) }

\* is_gstin_check_digit_valid, line 565
GSTIN_CODEPOINT_CHARS == <<"0", "1", "2", "3", "4", "5", "6", "7", "8", "9", "A", "B", "C", "D", "E", "F", "G", "H", "I", "J", "K", "L", "M", "N", "O", "P", "Q", "R", "S", "T", "U", "V", "W", "X", "Y", "Z">>

\* String.prototype.toUpperCase, character by character
UpperChar(c) ==
    IF c \in Letter(LowerCase)
    THEN UpperCase[CHOOSE i \in 1..Len(LowerCase) : LowerCase[i] = c]
    ELSE c

toUpperCase(str) == [i \in 1..Len(str) |-> UpperChar(str[i])]

\* String.prototype.trim: white space removed at both ends
RECURSIVE TrimStart(_)
TrimStart(str) ==
    IF str # << >> /\ Head(str) = " " THEN TrimStart(Tail(str)) ELSE str

RECURSIVE TrimEnd(_)
TrimEnd(str) ==
    IF str # << >> /\ str[Len(str)] = " " THEN TrimEnd(SubSeq(str, 1, Len(str) - 1)) ELSE str

trim(str) == TrimEnd(TrimStart(str))

\* GSTIN_REGEX.test(gstin): the format of a GSTIN, 15 alphanumeric characters
GSTIN_REGEX(gstin) ==
    /\ Len(gstin) = 15
    /\ \A i \in 1..15 : gstin[i] \in Digits \cup Letter(UpperCase)

\* JavaScript a % m (the sign of the dividend) and Math.floor(a / m), m > 0
JSRemainder(a, m) == IF a >= 0 THEN a % m ELSE 0 - ((0 - a) % m)
JSFloorDiv(a, m) == a \div m

\* the inner loop of lines 572-577: index of the character, -1 if not found
CodePoint(c) ==
    IF \E k \in 1..Len(GSTIN_CODEPOINT_CHARS) : GSTIN_CODEPOINT_CHARS[k] = c
    THEN (CHOOSE k \in 1..Len(GSTIN_CODEPOINT_CHARS) : GSTIN_CODEPOINT_CHARS[k] = c) - 1
    ELSE 0 - 1

\* variant of the loop: the doubled code point is reduced modulo 36 only
RECURSIVE CheckSum_no_carry(_, _, _)
CheckSum_no_carry(gstin, i, factor) ==
    IF i < 0 THEN 0
    ELSE LET mod == Len(GSTIN_CODEPOINT_CHARS)
             digit == factor * CodePoint(gstin[i + 1])
         IN JSRemainder(digit, mod)
              + CheckSum_no_carry(gstin, i - 1, IF factor = 2 THEN 1 ELSE 2)

\* the loop of lines 571-582 from 0-based index i down to 0
RECURSIVE CheckSum(_, _, _)
CheckSum(gstin, i, factor) ==
    IF i < 0 THEN 0
    ELSE LET mod == Len(GSTIN_CODEPOINT_CHARS)
             digit == factor * CodePoint(gstin[i + 1])
         IN JSFloorDiv(digit, mod) + JSRemainder(digit, mod)
              + CheckSum(gstin, i - 1, IF factor = 2 THEN 1 ELSE 2)

\* is_gstin_check_digit_valid(gstin), lines 559-586
is_gstin_check_digit_valid(gstin) ==
    LET mod == Len(GSTIN_CODEPOINT_CHARS)
        sum == CheckSum(gstin, Len(gstin) - 2, 2)
        checkCodePoint == JSRemainder(mod - JSRemainder(sum, mod), mod)
    IN Len(gstin) >= 15 /\ GSTIN_CODEPOINT_CHARS[checkCodePoint + 1] = gstin[15]

JSString(str) == [type |-> "string", chars |-> str]

\* variant of validate_gstin: the value returned is the argument as passed
validate_gstin_returns_argument(gstin, show_msg) ==
    IF gstin = << >> \/ Len(gstin) # 15
    THEN [ returned |-> JSUndefined,
           msgprint |-> IF show_msg THEN <<"GSTIN must be 15 characters long">> ELSE << >> ]
    ELSE LET upper == toUpperCase(trim(gstin)) IN
         IF GSTIN_REGEX(upper) /\ is_gstin_check_digit_valid(upper)
         THEN [ returned |-> JSString(gstin), msgprint |-> << >> ]
         ELSE [ returned |-> JSUndefined,
                msgprint |-> IF show_msg THEN <<"Invalid GSTIN">> ELSE << >> ]

\* validate_gstin(gstin, show_msg), lines 290-314: the value returned and the
\* messages printed; null, undefined and "" all take the !gstin branch
validate_gstin(gstin, show_msg) ==
    IF gstin = << >> \/ Len(gstin) # 15
    THEN [ returned |-> JSUndefined,
           msgprint |-> IF show_msg THEN <<"GSTIN must be 15 characters long">> ELSE << >> ]
    ELSE LET upper == toUpperCase(trim(gstin)) IN
         IF GSTIN_REGEX(upper) /\ is_gstin_check_digit_valid(upper)
         THEN [ returned |-> JSString(upper), msgprint |-> << >> ]
         ELSE [ returned |-> JSUndefined,
                msgprint |-> IF show_msg THEN <<"Invalid GSTIN">> ELSE << >> ]

\* arguments validate_gstin is called with: two well-formed GSTINs, in upper
\* and in lower case, each with any one character replaced, and strings that
\* are too short, too long or padded with white space
WellFormed == { <<"2", "7", "A", "A", "P", "F", "U", "0", "9", "3", "9", "F", "1", "Z", "V">>,
                <<"2", "9", "A", "A", "G", "C", "B", "7", "3", "8", "3", "J", "1", "Z", "4">> }
Replacements == {"0", "7", "Z", "z", " ", "-"}
ReplaceAt(str, i, c) == [str EXCEPT ![i] = c]
GstinArguments ==
    LET typed == WellFormed \cup { [i \in 1..Len(g) |->
                                      IF g[i] \in Letter(UpperCase)
                                      THEN LowerCase[CHOOSE k \in 1..Len(UpperCase) : UpperCase[k] = g[i]]
                                      ELSE g[i]] : g \in WellFormed }
    IN typed
       \cup { ReplaceAt(g, i, c) : g \in typed, i \in 1..15, c \in Replacements }
       \cup { SubSeq(g, 1, 14) : g \in typed }
       \cup { g \o <<"0">> : g \in typed }
       \cup { <<" ">> \o g : g \in typed }
       \cup { <<" ">> \o SubSeq(g, 1, 14) : g \in typed }
       \cup { SubSeq(g, 2, 15) \o <<" ">> : g \in typed }
       \cup { << >> }

\* validate_gstin has not been called
NotValidated == [called |-> FALSE]

\* ------------------------------------------- calls of the other helpers
\* prefixes is_gstin_check_digit_valid is called with: those of the two
\* well-formed GSTINs, one of zeros and the last 14 characters of the alphabet
CheckPrefixes ==
    { SubSeq(g, 1, 14) : g \in WellFormed }
    \cup { [i \in 1..14 |-> "0"], [i \in 1..14 |-> GSTIN_CODEPOINT_CHARS[i + 22]] }

\* the characters c for which is_gstin_check_digit_valid(prefix + c) is true
AcceptedCheckChars(prefix) ==
    { GSTIN_CODEPOINT_CHARS[k] : k \in { n \in 1..Len(GSTIN_CODEPOINT_CHARS) :
          is_gstin_check_digit_valid(prefix \o <<GSTIN_CODEPOINT_CHARS[n]>>) } }

NotEvaluated == [op |-> "none"]

\* india_compliance.MONTH and india_compliance.QUARTER, lines 17-32
MONTH ==
    << <<"J", "a", "n", "u", "a", "r", "y">>,
       <<"F", "e", "b", "r", "u", "a", "r", "y">>,
       <<"M", "a", "r", "c", "h">>,
       <<"A", "p", "r", "i", "l">>,
       <<"M", "a", "y">>,
       <<"J", "u", "n", "e">>,
       <<"J", "u", "l", "y">>,
       <<"A", "u", "g", "u", "s", "t">>,
       <<"S", "e", "p", "t", "e", "m", "b", "e", "r">>,
       <<"O", "c", "t", "o", "b", "e", "r">>,
       <<"N", "o", "v", "e", "m", "b", "e", "r">>,
       <<"D", "e", "c", "e", "m", "b", "e", "r">> >>
QUARTER ==
    << <<"J", "a", "n", "-", "M", "a", "r">>,
       <<"A", "p", "r", "-", "J", "u", "n">>,
       <<"J", "u", "l", "-", "S", "e", "p">>,
       <<"O", "c", "t", "-", "D", "e", "c">> >>

\* arr[i] of JavaScript for a 0-based index: undefined outside the array
JSIndex(arr, i) == IF i \in 0..(Len(arr) - 1) THEN JSString(arr[i + 1]) ELSE JSUndefined

\* str.slice(from) and str.slice(from, to) with 0-based bounds inside the string
slice(str, from, to) == SubSeq(str, from + 1, to)

\* the decimal digits by value
DecimalDigits == <<"0", "1", "2", "3", "4", "5", "6", "7", "8", "9">>

\* the number a string of decimal digits is coerced to
RECURSIVE ToNumber(_)
ToNumber(str) ==
    IF str = << >> THEN 0
    ELSE 10 * ToNumber(SubSeq(str, 1, Len(str) - 1))
           + (CHOOSE d \in 0..9 : DecimalDigits[d + 1] = str[Len(str)])

\* String(n) for a natural number
RECURSIVE NumberToString(_)
NumberToString(n) == IF n < 10 THEN <<DecimalDigits[n + 1]>>
    ELSE NumberToString(n \div 10) \o <<DecimalDigits[(n % 10) + 1]>>

\* str.padStart(len, pad) for a one-character pad
RECURSIVE padStart(_, _, _)
padStart(str, len, pad) == IF Len(str) >= len THEN str ELSE padStart(<<pad>> \o str, len, pad)

\* str.includes(c) for one character, and str.split(c)[1]
includes(str, c) == \E i \in 1..Len(str) : str[i] = c
RECURSIVE UpTo(_, _)
UpTo(str, c) == IF str = << >> \/ Head(str) = c THEN << >> ELSE <<Head(str)>> \o UpTo(Tail(str), c)
SplitSecond(str, c) == UpTo(SubSeq(str, Len(UpTo(str, c)) + 2, Len(str)), c)

\* new Date(`${word} 1, ${year}`).getMonth() + 1: the parser knows a month by
\* the first three letters of its English name; "NaN" for an invalid date
DateMonthNumber(word) ==
    LET known == { k \in 1..Len(MONTH) :
                     Len(word) >= 3 /\ SubSeq(MONTH[k], 1, 3) = SubSeq(word, 1, 3) }
    IN IF known = {} THEN <<"N", "a", "N">> ELSE NumberToString(CHOOSE k \in known : TRUE)

\* get_month_year_from_period(period), lines 36-49
get_month_year_from_period(period) ==
    LET month_number == slice(period, 0, 2)
        year == slice(period, 2, Len(period))
    IN <<JSIndex(MONTH, ToNumber(month_number) - 1), year>>

\* variant of get_period: the month number is not padded
get_period_unpadded(month_or_quarter, year) ==
    LET last_month == IF includes(month_or_quarter, "-")
                      THEN SplitSecond(month_or_quarter, "-")
                      ELSE month_or_quarter
    IN DateMonthNumber(last_month) \o year

\* get_period(month_or_quarter, year), lines 51-71
get_period(month_or_quarter, year) ==
    LET last_month == IF includes(month_or_quarter, "-")
                      THEN SplitSecond(month_or_quarter, "-")
                      ELSE month_or_quarter
        month == padStart(DateMonthNumber(last_month), 2, "0")
    IN month \o year

\* last_month_name() when today.getMonth() is getMonth, lines 414-418
last_month_name(getMonth) ==
    LET last_month == getMonth - 1 IN JSIndex(MONTH, last_month)

\* periods MMYYYY of the months 01..12 and the years they are taken in
Years == { <<"1", "9", "9", "9">>, <<"2", "0", "1", "7">>, <<"2", "0", "2", "4">> }
MonthNumbers ==
    { mm \in { <<DecimalDigits[a], DecimalDigits[b]>> : a \in 1..2, b \in 1..10 } : ToNumber(mm) \in 1..12 }

\* ------------------------------------------------------ the Address form
\* values of the country field: cleared, India, two other countries
Countries == {"", "India", "Nepal", "United States"}
\* values a user gives the gst_category field
GstCategories == {"Unregistered", "Registered Regular", "Overseas"}
\* frappe.boot.india_state_options
india_state_options == <<"Andaman and Nicobar Islands", "Gujarat", "West Bengal">>

\* calls a handler makes on the form
SetData(options) == [fn |-> "state.set_data", arg |-> options]
SetValue(fieldname, value) == [fn |-> "frm.set_value", field |-> fieldname, arg |-> value]
Trigger(event) == [fn |-> "frm.trigger", arg |-> event]

\* india_compliance.set_state_options(frm), lines 250-259
set_state_options(frm) ==
    LET country == frm.country_field
        data == IF country # "India" THEN << >> ELSE india_state_options
    IN [frm EXCEPT !.state_data = data, !.calls = Append(@, SetData(data))]

\* frm.set_value(fieldname, value) for a field of the document
set_value(frm, fieldname, value) ==
    [frm EXCEPT !.doc = [@ EXCEPT ![fieldname] = value],
                !.calls = Append(@, SetValue(fieldname, value))]

\* variant of the country handler: no early return for a cleared country
country_without_empty_check(frm) ==
    LET shown == set_state_options(frm) IN
    IF shown.doc.country # "India"
    THEN set_value(shown, "gst_category", "Overseas")
    ELSE [shown EXCEPT !.calls = Append(@, Trigger("gstin"))]

\* the country handler of the Address form, address.js lines 10-19
country(frm) ==
    LET shown == set_state_options(frm) IN
    IF shown.doc.country = "" THEN shown
    ELSE IF shown.doc.country # "India"
    THEN set_value(shown, "gst_category", "Overseas")
    ELSE [shown EXCEPT !.calls = Append(@, Trigger("gstin"))]

\* the class frappe ships as frappe.ui.form.AddressQuickEntryForm, and the
\* class the n-th click of "Update Address" derives from the class `base`
AddressQuickEntryForm == [by |-> 0]
UpdateAddressForm(n, base) == [by |-> n, extends |-> base]

\* update_address_fields(frm) up to the call of frappe.db.get_doc, lines
\* 56-74: the global is kept in original_quick_entry_form and replaced
update_address_fields(qe) ==
    LET original_quick_entry_form == qe.AddressQuickEntryForm
        n == Len(qe.fetches) + 1
    IN [qe EXCEPT !.AddressQuickEntryForm = UpdateAddressForm(n, original_quick_entry_form),
                  !.fetches = Append(@, [ state |-> "pending",
                                          original_quick_entry_form |-> original_quick_entry_form ])]

\* the then-callback of the k-th fetch, lines 74-82: make_quick_entry builds
\* the dialog from the class the global holds, then the global is put back
get_doc_then(qe, k) ==
    [qe EXCEPT !.dialogs = Append(@, qe.AddressQuickEntryForm),
               !.AddressQuickEntryForm = qe.fetches[k].original_quick_entry_form,
               !.fetches[k].state = "resolved"]

\* no "Update Address" click yet
NoUpdates ==
    [ AddressQuickEntryForm |-> AddressQuickEntryForm, fetches |-> << >>, dialogs |-> << >> ]

\* ------------------------------------------------- the status of a GSTIN
\* values the gstin field is given: empty, too short, and three of 15
\* characters, the last one unknown to the server
UnknownGstin == <<"2", "4", "A", "A", "A", "C", "C", "1", "2", "0", "6", "D", "1", "Z", "M">>
FieldValues ==
    WellFormed \cup {UnknownGstin, << >>, <<"2", "7", "A", "A", "P">>}

\* the message get_gstin_status answers with for a GSTIN
NoMessage == [type |-> "null"]
GstinStatusMessage(gstin) ==
    IF gstin \notin WellFormed THEN NoMessage
    ELSE [ type |-> "object",
           status |-> IF gstin[2] = "7" THEN "Active" ELSE "Cancelled" ]

\* field.set_description("") and the description of a status, lines 210-228
NoDescription == [status |-> "", indicator |-> ""]
get_gstin_status_desc(status) ==
    [ status |-> status,
      indicator |-> CASE status = "Active" -> "green"
                      [] status = "Cancelled" -> "red"
                      [] status = "Not Available" -> "grey"
                      [] OTHER -> "orange" ]

\* set_gstin_status(field, doc, force_update) up to the await, lines 133-142
set_gstin_status(field, force_update) ==
    LET gstin == field.value IN
    IF gstin = << >> \/ Len(gstin) # 15
    THEN [field EXCEPT !.description = NoDescription]
    ELSE [field EXCEPT !.calls = Append(@, [ gstin |-> gstin, force_update |-> force_update,
                                             state |-> "pending",
                                             overlaps |-> { k \in DOMAIN field.calls :
                                                              field.calls[k].state = "pending" } ])]

\* set_gstin_status after the await of call k, lines 144-155, with
\* set_gstin_refresh_btn (lines 230-248) when the API settings allow the button
set_gstin_status_resumes(field, k, message) ==
    LET shown == IF message = NoMessage THEN [type |-> "object", status |-> "Not Available"]
                 ELSE message
    IN [field EXCEPT !.description = get_gstin_status_desc(shown.status),
                     !.refresh_btn = TRUE,
                     !.calls[k].state = "answered"]

\* a gstin field nothing was typed into
EmptyGstinField ==
    [ value |-> << >>, description |-> NoDescription, refresh_btn |-> FALSE, calls |-> << >> ]

\* ------------------------------------------------ the Audit Trail report
\* DATE_OPTIONS, audit_trail.js lines 6-18
DATE_OPTIONS ==
    { "Today", "Yesterday", "This Week", "This Month", "This Quarter", "This Year",
      "Last Week", "Last Month", "Last Quarter", "Last Year", "Custom" }

\* on_change of the date_option filter, lines 45-53: date_range is made
\* required for "Custom", then the report is refreshed with the filters
date_option_on_change(report) ==
    LET marked == IF report.date_option = "Custom"
                  THEN [report EXCEPT !.date_range = [reqd |-> 1, required |-> 1]]
                  ELSE report
    IN [marked EXCEPT !.refreshed_for = marked.date_option]

\* the report as its filters declare it, lines 38-61: date_option defaults to
\* "This Week" and date_range declares no reqd
NewAuditTrail ==
    [ date_option |-> "This Week",
      date_range |-> [reqd |-> 0, required |-> 0],
      refreshed_for |-> "This Week",
      changes |-> << >> ]

\* an Address form after its first refresh (address.js line 21)
NewAddress ==
    [ set_state_options([ doc |-> [country |-> "India", gst_category |-> "Unregistered"],
                          country_field |-> "India",
                          state_data |-> << >>,
                          calls |-> << >> ])
      EXCEPT !.calls = << >> ]

Init ==
    /\ RETRY_INTERVALS \in Schedules
    /\ polls = [j \in Jobs |-> IdlePoll]
    /\ requests = [j \in Jobs |-> IdleRequest]
    /\ validation = NotValidated
    /\ evaluation = NotEvaluated
    /\ address = NewAddress
    /\ quick_entry = NoUpdates
    /\ gstin_field = EmptyGstinField
    /\ audit_trail = NewAuditTrail

\* a caller invokes check_regenerate_status for job j
Start(j) ==
    /\ polls[j].pc = "idle"
    /\ requests[j].pc = "none"
    /\ polls' = Logged(check_regenerate_status(polls, j, RETRY_INTERVALS), j, StartEvent)
    /\ RETRY_INTERVALS' = ReadIntervals(RETRY_INTERVALS)
    /\ UNCHANGED <<requests, formVars>>

\* the earliest armed timer becomes due (timers fire when their delay has elapsed)
Armed == { j \in Jobs : polls[j].pc = "waiting" }

Advance ==
    /\ Armed # {}
    /\ \A j \in Armed : polls[j].timerLeft > 0
    /\ \E j \in Armed :
          /\ \A k \in Armed : polls[j].timerLeft <= polls[k].timerLeft
          /\ polls' = Elapse(polls, polls[j].timerLeft)
    /\ UNCHANGED <<RETRY_INTERVALS, requests, formVars>>

\* the timer of job j fires and the status query is sent
TimerFires(j) ==
    /\ polls[j].pc = "waiting"
    /\ polls[j].timerLeft = 0
    /\ polls' = Logged(TimerCallback(polls, j), j, FireEvent)
    /\ UNCHANGED <<RETRY_INTERVALS, requests, formVars>>

\* the remote check answers the outstanding query of job j with r; a
\* gstr_2b.regenerate call awaiting the promise resumes before any other
\* timer or response is handled
Response(j) ==
    /\ polls[j].pc = "querying"
    /\ \E r \in Responses :
          /\ polls' = Logged(QueryCallback(polls, j, r, RETRY_INTERVALS), j, ResponseEvent(r))
          /\ requests' = AwaitResumes(requests, polls', j)
    /\ RETRY_INTERVALS' = ReadIntervals(RETRY_INTERVALS)
    /\ UNCHANGED formVars

\* the query of job j fails without the callback being run (frappe.call is
\* given no error handler, lines 57-60)
QueryLost(j) ==
    /\ polls[j].pc = "querying"
    /\ polls' = Logged(QueryFailed(polls, j), j, LostEvent)
    /\ UNCHANGED <<RETRY_INTERVALS, requests, formVars>>

Next ==
    \/ \E j \in Jobs : Start(j)
    \/ Advance
    \/ \E j \in Jobs : TimerFires(j)
    \/ \E j \in Jobs : Response(j)
    \/ \E j \in Jobs : QueryLost(j)

Spec == Init /\ [][Next]_vars

\* the host event loop runs every due timer callback and the remote service
\* answers every query it receives (or the request fails); nothing obliges a
\* caller to start a poll
Fairness ==
    /\ WF_vars(Advance)
    /\ \A j \in Jobs : WF_vars(TimerFires(j))
    /\ \A j \in Jobs : WF_vars(Response(j))

FairSpec == Spec /\ Fairness

\* the user clicks "Regenerate 2B" for the return period that yields job j
RegenerateClicked(j) ==
    /\ requests[j].pc = "none"
    /\ polls[j].pc = "idle"
    /\ requests' = regenerate(requests, j)
    /\ UNCHANGED <<RETRY_INTERVALS, polls, formVars>>

\* the start-regeneration call of job j is answered with r
StartResponse(j) ==
    /\ requests[j].pc = "starting"
    /\ \E r \in StartResponses :
          LET after == regenerate_callback(requests, polls, j, r, RETRY_INTERVALS) IN
          /\ requests' = after.requests
          /\ polls' = after.polls
    /\ RETRY_INTERVALS' = ReadIntervals(RETRY_INTERVALS)
    /\ UNCHANGED formVars

\* a form script calls validate_gstin(gstin, show_msg); the function keeps no
\* state between calls, so one call from the initial state shows them all
ValidateGstin ==
    /\ ~validation.called
    /\ \E gstin \in GstinArguments, show_msg \in BOOLEAN :
          LET result == validate_gstin(gstin, show_msg) IN
          validation' = [ called |-> TRUE, gstin |-> gstin, show_msg |-> show_msg,
                          returned |-> result.returned, msgprint |-> result.msgprint ]
    /\ UNCHANGED <<pollerVars, evaluation, address, quick_entry, gstin_field, audit_trail>>

GstinNext == ValidateGstin

GstinSpec == Init /\ [][GstinNext]_vars

\* is_gstin_check_digit_valid is called on a prefix with each of the 36
\* characters appended, and again after position i of the prefix is
\* overwritten with the character c
CheckDigit ==
    /\ evaluation.op = "none"
    /\ \E prefix \in CheckPrefixes, i \in 1..14, n \in 1..Len(GSTIN_CODEPOINT_CHARS) :
          LET c == GSTIN_CODEPOINT_CHARS[n] IN
          evaluation' = [ op |-> "is_gstin_check_digit_valid",
                          prefix |-> prefix, position |-> i, char |-> c,
                          accepted |-> AcceptedCheckChars(prefix),
                          acceptedAfter |-> AcceptedCheckChars(ReplaceAt(prefix, i, c)) ]
    /\ UNCHANGED <<pollerVars, validation, address, quick_entry, gstin_field, audit_trail>>

\* a period MMYYYY is taken apart by get_month_year_from_period and the
\* parts are passed to get_period
MonthlyPeriod ==
    /\ evaluation.op = "none"
    /\ \E mm \in MonthNumbers, yyyy \in Years :
          LET month_year == get_month_year_from_period(mm \o yyyy) IN
          evaluation' = [ op |-> "get_month_year_from_period",
                          period |-> mm \o yyyy,
                          month_year |-> month_year,
                          returned |-> get_period(month_year[1].chars, month_year[2]) ]
    /\ UNCHANGED <<pollerVars, validation, address, quick_entry, gstin_field, audit_trail>>

\* get_period is called with a label of QUARTER
QuarterlyPeriod ==
    /\ evaluation.op = "none"
    /\ \E q \in 1..Len(QUARTER), yyyy \in Years :
          evaluation' = [ op |-> "get_period", quarter |-> q, year |-> yyyy,
                          returned |-> get_period(QUARTER[q], yyyy) ]
    /\ UNCHANGED <<pollerVars, validation, address, quick_entry, gstin_field, audit_trail>>

\* a new GSTR 3B Report, or the GSTR-3B Details filter, takes its default
\* month_or_quarter from last_month_name() in the month getMonth (0 = January)
LastMonthName ==
    /\ evaluation.op = "none"
    /\ \E getMonth \in 0..11 :
          evaluation' = [ op |-> "last_month_name", getMonth |-> getMonth,
                          month_or_quarter |-> last_month_name(getMonth) ]
    /\ UNCHANGED <<pollerVars, validation, address, quick_entry, gstin_field, audit_trail>>

UtilsNext ==
    \/ CheckDigit
    \/ MonthlyPeriod
    \/ QuarterlyPeriod
    \/ LastMonthName

UtilsSpec == Init /\ [][UtilsNext]_vars

\* the user gives the country field of the Address form another value: the
\* document and the field take it and the country handler runs
CountryChanged ==
    /\ \E c \in Countries \ {address.doc.country} :
          address' = country([address EXCEPT !.doc.country = c, !.country_field = c,
                                             !.calls = << >>])
    /\ UNCHANGED <<pollerVars, validation, evaluation, quick_entry, gstin_field, audit_trail>>

\* the user gives the gst_category field another value
GstCategoryChanged ==
    /\ \E g \in GstCategories \ {address.doc.gst_category} :
          address' = [address EXCEPT !.doc.gst_category = g, !.calls = << >>]
    /\ UNCHANGED <<pollerVars, validation, evaluation, quick_entry, gstin_field, audit_trail>>

\* the user clicks "Update Address"
UpdateAddressClicked ==
    /\ Len(quick_entry.fetches) < MaxClicks
    /\ quick_entry' = update_address_fields(quick_entry)
    /\ UNCHANGED <<pollerVars, validation, evaluation, address, gstin_field, audit_trail>>

\* frappe.db.get_doc of the k-th click resolves
FetchResolved(k) ==
    /\ quick_entry.fetches[k].state = "pending"
    /\ quick_entry' = get_doc_then(quick_entry, k)
    /\ UNCHANGED <<pollerVars, validation, evaluation, address, gstin_field, audit_trail>>

\* frappe.db.get_doc of the k-th click rejects: there is no catch handler
FetchRejected(k) ==
    /\ quick_entry.fetches[k].state = "pending"
    /\ quick_entry' = [quick_entry EXCEPT !.fetches[k].state = "rejected"]
    /\ UNCHANGED <<pollerVars, validation, evaluation, address, gstin_field, audit_trail>>

AddressNext ==
    \/ CountryChanged
    \/ GstCategoryChanged
    \/ UpdateAddressClicked
    \/ \E k \in DOMAIN quick_entry.fetches : FetchResolved(k)
    \/ \E k \in DOMAIN quick_entry.fetches : FetchRejected(k)

AddressSpec == Init /\ [][AddressNext]_vars

\* the gstin field is given another value and its handler calls set_gstin_status
GstinEdited ==
    /\ Len(gstin_field.calls) < MaxStatusCalls
    /\ \E g \in FieldValues \ {gstin_field.value} :
          gstin_field' = set_gstin_status([gstin_field EXCEPT !.value = g], FALSE)
    /\ UNCHANGED <<pollerVars, validation, evaluation, address, quick_entry, audit_trail>>

\* the refresh button of the description is clicked, lines 245-247
RefreshClicked ==
    /\ gstin_field.refresh_btn
    /\ Len(gstin_field.calls) < MaxStatusCalls
    /\ gstin_field' = set_gstin_status(gstin_field, TRUE)
    /\ UNCHANGED <<pollerVars, validation, evaluation, address, quick_entry, audit_trail>>

\* the answer to the k-th get_gstin_status call arrives
StatusResponse(k) ==
    /\ gstin_field.calls[k].state = "pending"
    /\ gstin_field' = set_gstin_status_resumes(gstin_field, k,
                                               GstinStatusMessage(gstin_field.calls[k].gstin))
    /\ UNCHANGED <<pollerVars, validation, evaluation, address, quick_entry, audit_trail>>

\* the k-th get_gstin_status call fails: the await throws
StatusCallFailed(k) ==
    /\ gstin_field.calls[k].state = "pending"
    /\ gstin_field' = [gstin_field EXCEPT !.calls[k].state = "failed"]
    /\ UNCHANGED <<pollerVars, validation, evaluation, address, quick_entry, audit_trail>>

GstinStatusNext ==
    \/ GstinEdited
    \/ RefreshClicked
    \/ \E k \in DOMAIN gstin_field.calls : StatusResponse(k)
    \/ \E k \in DOMAIN gstin_field.calls : StatusCallFailed(k)

GstinStatusSpec == Init /\ [][GstinStatusNext]_vars

\* the user selects another date_option in the Audit Trail report
DateOptionChanged ==
    /\ Len(audit_trail.changes) < MaxOptionChanges
    /\ \E o \in DATE_OPTIONS \ {audit_trail.date_option} :
          audit_trail' = date_option_on_change([audit_trail EXCEPT !.date_option = o,
                                                                   !.changes = Append(@, o)])
    /\ UNCHANGED <<pollerVars, validation, evaluation, address, quick_entry, gstin_field>>

AuditTrailNext == DateOptionChanged

AuditTrailSpec == Init /\ [][AuditTrailNext]_vars

\* polls started by regenerate requests only
RegenNext ==
    \/ \E j \in Jobs : RegenerateClicked(j)
    \/ \E j \in Jobs : StartResponse(j)
    \/ Advance
    \/ \E j \in Jobs : TimerFires(j)
    \/ \E j \in Jobs : Response(j)
    \/ \E j \in Jobs : QueryLost(j)

RegenSpec == Init /\ [][RegenNext]_vars

\* ------------------------------------------------- derived views of a run
N == Len(RETRY_INTERVALS)

IsResponse(e) == e.ev = "response"

\* the responses job j has received, in order
ResponsesOf(j) == SelectSeq(polls[j].log, IsResponse)

IsInProgress(e) == e.ev = "response" /\ ~e.r.exc /\ e.r.status_cd = "IP"
IsTerminal(e) == e.ev = "response" /\ ~e.r.exc /\ e.r.status_cd # "IP"
IsTransportFailure(e) == e.ev = "lost" \/ (e.ev = "response" /\ e.r.exc)

\* every query of job j so far was answered, and answered in-progress
OnlyInProgress(j) ==
    \A i \in 1..Len(polls[j].log) :
        polls[j].log[i].ev \in {"start", "fire"} \/ IsInProgress(polls[j].log[i])

\* job j received a terminal answer as its latest response
EndedOnTerminal(j) ==
    /\ ResponsesOf(j) # << >>
    /\ IsTerminal(ResponsesOf(j)[Len(ResponsesOf(j))])

\* job j used up the schedule: N queries, all answered in-progress
EndedOnExhaustion(j) ==
    /\ polls[j].pc = "stopped"
    /\ OnlyInProgress(j)
    /\ Len(ResponsesOf(j)) = N

\* the poll of job j stalled on a transport failure
Stalled(ps, j) ==
    /\ ps[j].log # << >>
    /\ IsTransportFailure(ps[j].log[Len(ps[j].log)])

\* ---------------------------------------------------------------- claims

\* C1: if the remote check answers in-progress on queries 0..k-1 and a
\* terminal status S with message M on query k (k < N), the value the caller
\* of check_regenerate_status receives is the outcome {status: S, error: M}.
C1_CallerReceivesTerminalOutcome ==
    \A j \in Jobs :
        EndedOnTerminal(j) =>
            LET last == ResponsesOf(j)[Len(ResponsesOf(j))].r IN
            polls[j].promise = Outcome(last.status_cd, last.err_msg)

\* C2: for every schedule length N >= 1, if the remote check always answers
\* in-progress, the value the caller receives is the exhausted outcome
\* {status: "ER", error: "Failed to regenerate GSTR-2B"}.
C2_CallerReceivesExhausted ==
    \A j \in Jobs :
        (N >= 1 /\ EndedOnExhaustion(j)) => polls[j].promise = Exhausted

\* C3: in a run in which every issued query was answered and which ended on
\* success, explicit failure or exhaustion, the resolve function was invoked
\* exactly once.
C3_ResolveInvokedOnce ==
    \A j \in Jobs :
        (EndedOnTerminal(j) \/ EndedOnExhaustion(j)) => polls[j].resolveCalls = 1

\* C4: in every reachable state, whatever the remote answers, the number of
\* status queries issued for a job is at most N, the length of the schedule.
C4_AtMostNQueries ==
    \A j \in Jobs : polls[j].queries <= N

\* a poll that has issued all N queries of a schedule of two or more entries
C4_Witness ==
    \E j \in Jobs : N >= 2 /\ polls[j].queries = N /\ polls[j].pc = "querying"

\* C5: if the remote always answers in-progress, the run has issued exactly N
\* status queries when it stops.
C5_ExactlyNQueriesWhenAlwaysInProgress ==
    \A j \in Jobs :
        (polls[j].pc = "stopped" /\ OnlyInProgress(j)) =>
            /\ polls[j].queries = N
            /\ Len(ResponsesOf(j)) = N

\* a poll that stopped after three or more in-progress answers and nothing else
C5_Witness ==
    \E j \in Jobs :
        polls[j].pc = "stopped" /\ OnlyInProgress(j) /\ Len(ResponsesOf(j)) >= 3

\* C6: if query k (0-based, k < N) is the first to be answered with a status
\* other than in-progress, the run issues exactly k+1 queries in total: after
\* that response no timer is armed and no query is outstanding or issued.
C6_NoQueryAfterTerminal ==
    \A j \in Jobs :
        \A i \in 1..Len(ResponsesOf(j)) :
            IsTerminal(ResponsesOf(j)[i]) =>
                /\ i = Len(ResponsesOf(j))
                /\ i <= N
                /\ polls[j].queries = i
                /\ polls[j].pc = "stopped"
                /\ polls[j].timerLeft = 0

\* a poll that got "ER" on its third query, with another poll still running
C6_Witness ==
    \E j, k \in Jobs :
        /\ Len(ResponsesOf(j)) = 3
        /\ IsTerminal(ResponsesOf(j)[3])
        /\ ResponsesOf(j)[3].r.status_cd = "ER"
        /\ polls[k].pc = "querying"

\* C7: when a status query fails at the transport level (r.exc, or no callback
\* at all) the poll takes no completing action: the failing step invokes no
\* resolve, and from then on the poll issues no query, arms no timer and
\* never invokes resolve.
C7_TransportFailureStalls ==
    [][\A j \in Jobs :
          /\ (Stalled(polls', j) /\ ~Stalled(polls, j)) =>
                /\ polls'[j].resolveCalls = polls[j].resolveCalls
                /\ polls'[j].promise = polls[j].promise
                /\ polls'[j].queries = polls[j].queries
                /\ polls'[j].pc = "stopped"
          /\ Stalled(polls, j) =>
                /\ polls'[j].resolveCalls = polls[j].resolveCalls
                /\ polls'[j].promise = polls[j].promise
                /\ polls'[j].queries = polls[j].queries
                /\ polls'[j].pc = "stopped"
                /\ polls'[j].log = polls[j].log]_vars

\* a poll stalled on a response carrying r.exc at its second query, while
\* another poll has a timer armed
C7_Witness ==
    \E j, k \in Jobs :
        /\ Stalled(polls, j)
        /\ polls[j].queries = 2
        /\ polls[j].log[Len(polls[j].log)].ev = "response"
        /\ polls[k].pc = "waiting"

\* C8: every status query is preceded by a wait of exactly schedule[a], a
\* being the 0-based attempt index of the query: the timer armed for attempt
\* a runs for schedule[a], and the wait observed before query a is
\* schedule[a] (RETRY_INTERVALS[a + 1] with 1-based sequences).
C8_WaitIsScheduleOfAttempt ==
    \A j \in Jobs :
        /\ \A q \in 1..Len(polls[j].waits) : polls[j].waits[q] = RETRY_INTERVALS[q]
        /\ Len(polls[j].waits) = polls[j].queries
        /\ polls[j].pc = "waiting" =>
              /\ polls[j].queries = polls[j].retries
              /\ polls[j].timerLeft + polls[j].waited = RETRY_INTERVALS[polls[j].retries + 1]

\* a poll that has issued its third query while another one waits on a
\* timer that has partly run down
C8_Witness ==
    \E j, k \in Jobs :
        /\ Len(polls[j].waits) = 3
        /\ polls[k].pc = "waiting" /\ polls[k].waited > 0 /\ polls[k].timerLeft > 0

\* C9 as stated: with consecutive in-progress responses the gap before query
\* 2 is schedule[0] and the gap before query 3 is schedule[1].
C9_GapsStartAtFirstEntry ==
    \A j \in Jobs :
        (OnlyInProgress(j) /\ Len(polls[j].waits) >= 3) =>
            /\ polls[j].waits[2] = RETRY_INTERVALS[1]
            /\ polls[j].waits[3] = RETRY_INTERVALS[2]

\* C9 amended: with consecutive in-progress responses the gap before query 2
\* is schedule[1] and the gap before query 3 is schedule[2] (3000 ms and
\* 15000 ms for schedule [2000, 3000, 15000]); schedule[0] is the wait before
\* query 1, and no fourth wait follows the third query.
C9_GapsStartAtSecondEntry ==
    \A j \in Jobs :
        (OnlyInProgress(j) /\ Len(polls[j].waits) >= 3) =>
            /\ polls[j].waits[2] = RETRY_INTERVALS[2]
            /\ polls[j].waits[3] = RETRY_INTERVALS[3]
            /\ RETRY_INTERVALS = <<2000, 3000, 15000>> =>
                  /\ polls[j].waits = <<2000, 3000, 15000>>
                  /\ polls[j].queries = 3

\* the schedule [2000, 3000, 15000] run to its end on in-progress answers
C9_Witness ==
    \E j \in Jobs :
        /\ RETRY_INTERVALS = <<2000, 3000, 15000>>
        /\ OnlyInProgress(j)
        /\ Len(polls[j].waits) = 3
        /\ polls[j].pc = "stopped"

\* what C10 compares: attempt counter, queries issued, delivered outcome,
\* resolve invocations, observed waits and position of a poll
Observed(p) ==
    [ retries |-> p.retries, queries |-> p.queries, promise |-> p.promise,
      resolveCalls |-> p.resolveCalls, waits |-> p.waits, pc |-> p.pc ]

\* event e handled by the poll of job j in a run in which j is the only poll
AloneStep(p, j, e) ==
    LET ps == [k \in {j} |-> p] IN
    CASE e.ev = "start" -> check_regenerate_status(ps, j, RETRY_INTERVALS)[j]
      [] e.ev = "fire" -> TimerCallback(ps, j)[j]
      [] e.ev = "response" -> QueryCallback(ps, j, e.r, RETRY_INTERVALS)[j]
      [] e.ev = "lost" -> QueryFailed(ps, j)[j]

\* C10: with polls for distinct job references in flight concurrently, under
\* every interleaving of their timers and responses each poll's attempt
\* counter, number of queries and delivered outcome evolve as if it ran
\* alone: a step that is not an event of job j leaves them unchanged for j
\* (driving job A to exhaustion never changes the attempt count of job B),
\* and an event of job j changes them exactly as it does with j as the only
\* poll.
C10_PollsAreIndependent ==
    [][\A j \in Jobs :
          IF polls'[j].log = polls[j].log
          THEN Observed(polls'[j]) = Observed(polls[j])
          ELSE /\ Len(polls'[j].log) = Len(polls[j].log) + 1
               /\ SubSeq(polls'[j].log, 1, Len(polls[j].log)) = polls[j].log
               /\ Observed(polls'[j]) =
                     Observed(AloneStep(polls[j], j, polls'[j].log[Len(polls'[j].log)]))
      ]_vars

\* job a was driven to exhaustion while job b, started before a stopped, is
\* in the middle of its run at a smaller attempt count
C10_Witness ==
    \E a, b \in Jobs :
        /\ a # b
        /\ EndedOnExhaustion(a) /\ polls[a].retries >= 3
        /\ polls[b].pc = "querying" /\ polls[b].retries = 1

\* C11: if every issued query receives a response and every timer fires, a
\* poll run eventually terminates: unless a query fails at the transport
\* level, a started poll reaches a state with no pending timer and no
\* outstanding query, having ended on a terminal remote response or on
\* schedule exhaustion.
C11_PollTerminates ==
    \A j \in Jobs :
        (polls[j].pc # "idle") ~>
            \/ Stalled(polls, j)
            \/ /\ polls[j].pc = "stopped"
               /\ polls[j].timerLeft = 0
               /\ EndedOnTerminal(j) \/ EndedOnExhaustion(j)

\* a poll that ran through three in-progress answers to exhaustion, and
\* another that ended on a terminal answer to its second query
C11_Witness ==
    \E a, b \in Jobs :
        /\ EndedOnExhaustion(a) /\ N >= 3
        /\ EndedOnTerminal(b) /\ polls[b].queries = 2 /\ polls[b].pc = "stopped"

\* the start call of job j was answered, and not with a job reference: with
\* r.exc, with error_type "otp_requested" or with another error_type
StartRefused(j) ==
    /\ requests[j].start # << >>
    /\ \/ requests[j].start[1].exc
       \/ requests[j].start[1].has_message /\ requests[j].start[1].error_type # NoMsg

\* C12: gstr_2b.regenerate starts polling only for a start response that
\* yields a job reference: when the start call returns r.exc, error_type
\* "otp_requested" or any other error_type, no status query is ever issued
\* and the caller's callback is never invoked for that request.
C12_NoPollWithoutReference ==
    \A j \in Jobs :
        StartRefused(j) =>
            /\ polls[j] = IdlePoll
            /\ requests[j].callbackArgs = << >>
            /\ requests[j].pc \in {"returned", "threw"}

\* one request was refused with "otp_requested", another one got a job
\* reference and has issued its second status query
C12_Witness ==
    \E a, b \in Jobs :
        /\ StartRefused(a) /\ requests[a].start[1].error_type = "otp_requested"
        /\ requests[b].pc \in {"awaiting", "done"} /\ polls[b].queries = 2

\* C13: validate_gstin(gstin, show_msg) returns a value only when the
\* argument is exactly 15 characters long and its trimmed, upper-cased form
\* passes the format check and the check-digit check; the value returned is
\* that upper-cased form; for every other argument nothing is returned; a
\* message is shown only when show_msg is true.
C13_ValidateGstinContract ==
    validation.called =>
        LET upper == toUpperCase(trim(validation.gstin))
            valid == /\ Len(validation.gstin) = 15
                     /\ GSTIN_REGEX(upper)
                     /\ is_gstin_check_digit_valid(upper)
        IN /\ valid => validation.returned = JSString(upper)
           /\ ~valid => validation.returned = JSUndefined
           /\ validation.msgprint # << >> => validation.show_msg

\* a valid GSTIN typed in lower case is returned in upper case
C13_Witness ==
    /\ validation.called
    /\ validation.gstin # toUpperCase(validation.gstin)
    /\ validation.returned = JSString(toUpperCase(validation.gstin))

\* the latest response job j received
LastResponse(j) == ResponsesOf(j)[Len(ResponsesOf(j))].r

SuccessAlert == Alert("Successfully Regenerated GSTR-2B")

Shown(j, effect) == \E i \in 1..Len(requests[j].ui) : requests[j].ui[i] = effect

\* C14: on the GSTR 3B Report form, after "Regenerate 2B" is clicked and the
\* start call returns a job reference, if the remote check answers in-progress
\* any number of times (fewer than N) and then "P", the user is eventually
\* shown the "Successfully Regenerated GSTR-2B" alert.  The awaiting callback
\* resumes in the step that handles the "P" response and nothing runs for the
\* request afterwards, so the alert is due in every state in which "P" has
\* been received.
C14_SuccessAlertShown ==
    \A j \in Jobs :
        (/\ requests[j].start = <<StartReference>>
         /\ EndedOnTerminal(j)
         /\ LastResponse(j).status_cd = "P") => Shown(j, SuccessAlert)

\* the step appends an in-progress response to the log of job j
AnsweredInProgress(j) ==
    /\ Len(polls'[j].log) = Len(polls[j].log) + 1
    /\ IsInProgress(polls'[j].log[Len(polls'[j].log)])

\* the attempt counter of a poll is within 0..N, and a timer is armed or a
\* query outstanding only while it is strictly below N
CounterInRange(p) ==
    /\ p.retries \in 0..N
    /\ p.pc \in {"waiting", "querying"} => p.retries < N
    /\ p.pc = "idle" => p.retries = 0

\* C15: in every reachable state of a poll run the attempt counter lies in
\* 0..N; it starts at 0, changes only by +1 and only in response to an
\* in-progress answer, never decreases, and a timer or query is only ever
\* started while the counter is strictly below N.
C15_AttemptCounter ==
    [][\A j \in Jobs :
          /\ CounterInRange(polls[j])
          /\ CounterInRange(polls'[j])
          /\ (polls[j].pc = "idle" /\ polls'[j].pc # "idle") => polls'[j].retries = 0
          /\ polls'[j].retries # polls[j].retries =>
                /\ polls'[j].retries = polls[j].retries + 1
                /\ AnsweredInProgress(j)
          /\ polls'[j].queries > polls[j].queries => polls[j].retries < N
          /\ (polls'[j].pc = "waiting" /\ polls[j].pc # "waiting") => polls'[j].retries < N
      ]_vars

\* a poll whose counter has reached N >= 2 while another poll's counter is 1
C15_Witness ==
    \E a, b \in Jobs :
        /\ N >= 2 /\ polls[a].retries = N
        /\ polls[b].retries = 1 /\ polls[b].pc = "waiting"

\* C16: when the N-th (last) query is answered in-progress, the exhausted
\* outcome is produced in the same step as that response: no further wait of
\* any duration and no further query comes between the last in-progress
\* response and the exhaustion report.
C16_ExhaustedInSameStep ==
    [][\A j \in Jobs :
          (AnsweredInProgress(j) /\ polls[j].queries = N) =>
              /\ polls'[j].resolved = polls[j].resolved \o <<Exhausted, JSUndefined>>
              /\ polls'[j].pc = "stopped"
              /\ polls'[j].timerLeft = 0
              /\ polls'[j].queries = N
              /\ polls'[j].waits = polls[j].waits
      ]_vars

\* a poll of a schedule of three entries that has reported exhaustion
C16_Witness ==
    \E j \in Jobs :
        /\ N = 3 /\ EndedOnExhaustion(j)
        /\ polls[j].resolved[Len(polls[j].resolved) - 1] = Exhausted

\* C17: no step of any poll run modifies the retry schedule: RETRY_INTERVALS
\* has the same length and the same entries in every reachable state, for any
\* number of concurrent polls.
C17_ScheduleNeverModified ==
    [][/\ Len(RETRY_INTERVALS') = Len(RETRY_INTERVALS)
       /\ \A a \in 1..Len(RETRY_INTERVALS) : RETRY_INTERVALS'[a] = RETRY_INTERVALS[a]]_vars

\* two polls ran concurrently to their ends, one exhausted and one stalled
C17_Witness ==
    \E a, b \in Jobs :
        /\ a # b
        /\ EndedOnExhaustion(a)
        /\ Stalled(polls, b) /\ polls[b].queries >= 2
        /\ RETRY_INTERVALS \in Schedules

\* C18: within one poll run the waits are strictly increasing: the wait
\* before attempt a+1 is longer than the wait before attempt a
\* (schedule[a] < schedule[a+1] for all a < N-1).
C18_WaitsStrictlyIncrease ==
    /\ \A a \in 1..(Len(ShippedIntervals) - 1) : ShippedIntervals[a] < ShippedIntervals[a + 1]
    /\ \A a \in 1..(N - 1) : RETRY_INTERVALS[a] < RETRY_INTERVALS[a + 1]
    /\ \A j \in Jobs :
          \A q \in 1..(Len(polls[j].waits) - 1) : polls[j].waits[q] < polls[j].waits[q + 1]

\* a poll that has waited three times
C18_Witness ==
    \E j \in Jobs : Len(polls[j].waits) = 3 /\ polls[j].pc = "querying"

\* C19: once the caller of check_regenerate_status has received its value
\* (the promise has settled), the poll for that job is over: no further
\* status query is issued and no timer remains pending for that job.
C19_SettledMeansOver ==
    \A j \in Jobs :
        polls[j].promise # Pending =>
            /\ polls[j].pc = "stopped"
            /\ polls[j].timerLeft = 0

\* C20: gstr_2b.regenerate invokes the caller's callback at most once per
\* request, and the first argument is an outcome object that carries a status
\* code (never null or undefined), so that reading regeneration_status.status
\* in the callback cannot fail.
C20_CallbackGetsOutcome ==
    \A j \in Jobs :
        /\ Len(requests[j].callbackArgs) <= 1
        /\ \A i \in 1..Len(requests[j].callbackArgs) :
              requests[j].callbackArgs[i].type = "object"
        /\ ~Shown(j, TypeError)

\* C21: for every 14-character prefix over 0-9A-Z exactly one 15th character
\* makes is_gstin_check_digit_valid true, and after any single character of
\* the prefix is replaced by a different one that 15th character is rejected
C21_OneCheckCharDetectsReplacement ==
    evaluation.op = "is_gstin_check_digit_valid" =>
        /\ Cardinality(evaluation.accepted) = 1
        /\ evaluation.char # evaluation.prefix[evaluation.position] =>
               evaluation.accepted \cap evaluation.acceptedAfter = {}

\* a digit of a real GSTIN prefix in a doubled position is replaced by the
\* character 18 code points away
C21_Witness ==
    /\ evaluation.op = "is_gstin_check_digit_valid"
    /\ evaluation.prefix \o <<"V">> \in WellFormed
    /\ evaluation.accepted = {"V"}
    /\ evaluation.position = 14
    /\ evaluation.prefix[14] = "Z" /\ evaluation.char = "H"
    /\ evaluation.acceptedAfter # {}

C24_QuickEntryFormRestored ==
    ( /\ quick_entry.fetches # << >>
      /\ \A k \in DOMAIN quick_entry.fetches : quick_entry.fetches[k].state = "resolved" )
    => quick_entry.AddressQuickEntryForm = AddressQuickEntryForm

C27_LastMonthIsAMonthName ==
    evaluation.op = "last_month_name" =>
        /\ evaluation.month_or_quarter = JSString(MONTH[((evaluation.getMonth + 11) % 12) + 1])
        /\ \E k \in 1..Len(MONTH) : evaluation.month_or_quarter = JSString(MONTH[k])

\* C25: two set_gstin_status calls of one field are in flight together for
\* different GSTINs; once both are answered, in either order, the description
\* shows the status of the GSTIN the field holds
C25_DescriptionOfCurrentGstin ==
    \A a, b \in DOMAIN gstin_field.calls :
        ( /\ a \in gstin_field.calls[b].overlaps
          /\ gstin_field.calls[a].gstin # gstin_field.calls[b].gstin
          /\ gstin_field.calls[b].gstin = gstin_field.value
          /\ b = Len(gstin_field.calls)
          /\ gstin_field.calls[a].state = "answered"
          /\ gstin_field.calls[b].state = "answered" )
        => gstin_field.description =
              get_gstin_status_desc(
                  IF GstinStatusMessage(gstin_field.value) = NoMessage THEN "Not Available"
                  ELSE GstinStatusMessage(gstin_field.value).status)

\* C26: after any sequence of changes of date_option, date_range is marked
\* required exactly when date_option is "Custom"
C26_RequiredIffCustom ==
    /\ audit_trail.date_range.reqd = 1 <=> audit_trail.date_option = "Custom"
    /\ audit_trail.date_range.required = 1 <=> audit_trail.date_option = "Custom"
====
